---- MODULE Spec2Model ----
(***************************************************************************)
(* git-commit-manager: the tree view's unpushed-commit resolution, the     *)
(* stage, diff and commit-date rewrite commands and the commit editor's    *)
(* message handlers, over a model of the repository the simple-git binding *)
(* talks to; and the handlers interleaved at the awaits of their calls.    *)
(*                                                                         *)
(* A commit is a record [msg, ad, cd] (message, author date, committer     *)
(* date).  A branch is the chain of its commits, oldest first; <<>> is a   *)
(* ref that does not exist (or an unborn HEAD).  The hash of the i-th      *)
(* commit of a chain is the chain's prefix of length i: like a real hash   *)
(* it is determined by the commit's content and by its whole ancestry, so  *)
(* changing a date changes the hash of the commit and of its descendants.  *)
(***************************************************************************)
EXTENDS Integers, Sequences, FiniteSets, TLC

VARIABLES
    workspace,   \* vscode.workspace.workspaceFolders?.[0] is defined
    head,        \* the chain of the current branch (HEAD)
    feature,     \* the chain of a second local branch, <<>> when there is none
    remotes,     \* the configured remotes, a sequence of names
    rrefs,       \* remote-tracking branches: name -> chain, <<>> when absent
    backup,      \* refs/original exists (left by an earlier filter-branch)
    files,       \* the state of each file of the working copy
    panel,       \* a commit editor panel is open
    editorGit,   \* what the commit editor's git handle is bound to
    shown,       \* the commit items the tree view displays
    inflight,    \* the tool calls that were started and have not returned
    last         \* the last run of a handler: what it was given, did and showed

vars == <<workspace, head, feature, remotes, rrefs, backup, files, panel, editorGit, shown,
         inflight, last>>

repo == <<head, feature, remotes, rrefs, backup, files>>

\* ---------------------------------------------------------------- bounds

MaxCommits == 11   \* longest history of the specification of long histories
MaxHist == 3       \* longest history of the specification of the rewrite
MaxAhead == 2      \* how far HEAD may be ahead of a remote-tracking branch
MaxDate == 2       \* timestamps are 1..MaxDate
MaxNew == 1        \* commits of the longest history the commit editor adds to
MaxFork == 1       \* how many commits of HEAD the second local branch may share

\* ------------------------------------------------------ program constants

LogLimit == 10     \* git.log(['--oneline', '-10'])
ErrLogLimit == 5   \* git.log(['--oneline', '-5'])

Dates == 1..MaxDate

\* The files of the working copy, in the order status lists them.
FileOrder == <<"a.txt">>
Files == {FileOrder[i] : i \in 1..Len(FileOrder)}
FileStates == {"clean", "modified", "staged", "untracked"}

OriginMain == <<"origin", "main">>
OriginMaster == <<"origin", "master">>
OriginDev == <<"origin", "dev">>
UpstreamDev == <<"upstream", "dev">>

\* Remote-tracking branch names, as their path segments, in the order
\* `git branch -r` lists them (sorted by name).
BranchOrder == <<OriginDev, OriginMain, OriginMaster, UpstreamDev>>
BranchNames == {BranchOrder[i] : i \in 1..Len(BranchOrder)}

\* ------------------------------------------------------- sequence helpers

Min(a, b) == IF a <= b THEN a ELSE b

Take(s, k) == SubSeq(s, 1, Min(k, Len(s)))

\* ------------------------------------------------------------ repository

Hash(chain, i) == SubSeq(chain, 1, i)

Reachable(chain) == {Hash(chain, i) : i \in 1..Len(chain)}

\* One entry of simple-git's log result (`all`), for the i-th commit of chain.
LogEntry(chain, i) ==
    [hash |-> Hash(chain, i), message |-> chain[i].msg, date |-> chain[i].ad]

\* `git log` walks from the tip: newest first.
LogAll(chain) == [k \in 1..Len(chain) |-> LogEntry(chain, Len(chain) + 1 - k)]

\* `git log <ref>..HEAD`: the commits reachable from HEAD and not from ref.
LogRange(ref, tip) ==
    LET NotInRef(e) == e.hash \notin Reachable(ref)
    IN  SelectSeq(LogAll(tip), NotInRef)

\* What a call of the binding can do: reject (a tool error is always possible),
\* or resolve with the value the repository determines, unless the repository
\* makes the command fail.
Outcomes(val, mustFail) ==
    {[ok |-> FALSE, val |-> <<>>]}
        \cup (IF mustFail THEN {} ELSE {[ok |-> TRUE, val |-> val]})

\* The upstream of the current branch, <<>> when it tracks nothing: the local
\* branch is main, and tracks origin/main when that exists.
Tracking == IF rrefs[OriginMain] # <<>> THEN <<OriginMain>> ELSE <<>>

FilesIn(state) ==
    LET InState(f) == files[f] = state
    IN  SelectSeq(FileOrder, InState)

\* git.status(): the StatusResult fields the handlers read.
GitStatus ==
    Outcomes([current |-> "main", tracking |-> Tracking,
              modified |-> FilesIn("modified"), staged |-> FilesIn("staged"),
              not_added |-> FilesIn("untracked")], FALSE)

GitGetRemotes == Outcomes(remotes, FALSE)

\* git.log([`${ref}..HEAD`]): git fails on a ref that does not exist.
GitLogRange(ref) ==
    Outcomes(LogRange(rrefs[ref], head), rrefs[ref] = <<>> \/ head = <<>>)

\* git.log(['--oneline', `-${k}`]): git fails while HEAD has no commit.
GitLogLast(k) == Outcomes(Take(LogAll(head), k), head = <<>>)

\* git.branch(['-r']).all
GitBranchR ==
    LET Present(b) == rrefs[b] # <<>>
    IN  Outcomes(SelectSeq(BranchOrder, Present), FALSE)

Call(op, args, ok) == [op |-> op, args |-> args, ok |-> ok]

RangeArgs(ref) == Append(ref, "..HEAD")

Last10Args == <<"--oneline", "-10">>
Last5Args == <<"--oneline", "-5">>

\* b.includes('origin/'): a segment "origin" followed by a separator.
IncludesOrigin(b) == \E i \in 1..(Len(b) - 1) : b[i] = "origin"

\* Mutant: the last matching branch instead of the first.
FindOrigin_Last(all) ==
    LET hits == SelectSeq(all, IncludesOrigin)
    IN  IF hits = <<>> THEN <<>> ELSE <<hits[Len(hits)]>>

\* branches.all.find(b => b.includes('origin/')): <<>> for undefined.
FindOrigin(all) ==
    LET hits == SelectSeq(all, IncludesOrigin)
    IN  IF hits = <<>> THEN <<>> ELSE <<Head(hits)>>

\* --------------------------------------- getChildrenForElement, unpushed

\* A block of the handler ends as [calls, commits, err]: the calls issued so
\* far, the value of `commits`, and whether an exception leaves the block.

\* Mutant: the limit of the error fallback in place of the limit of the log.
ChildLocal10_Five(calls) ==
    { [calls |-> Append(calls, Call("log", Last10Args, o.ok)),
       commits |-> o.val, err |-> ~o.ok] : o \in GitLogLast(ErrLogLimit) }

ChildLocal10(calls) ==
    { [calls |-> Append(calls, Call("log", Last10Args, o.ok)),
       commits |-> o.val, err |-> ~o.ok] : o \in GitLogLast(LogLimit) }

ChildDefault(calls) ==
    UNION {
        IF ~b.ok
        THEN ChildLocal10(Append(calls, Call("branch", <<"-r">>, FALSE)))
        ELSE LET calls2 == Append(calls, Call("branch", <<"-r">>, TRUE))
                 defaultBranch == FindOrigin(b.val)
             IN  IF defaultBranch = <<>>
                 THEN {[calls |-> calls2, commits |-> <<>>, err |-> FALSE]}
                 ELSE UNION {
                        IF l.ok
                        THEN {[calls |-> Append(calls2,
                                   Call("log", RangeArgs(defaultBranch[1]), TRUE)),
                               commits |-> l.val, err |-> FALSE]}
                        ELSE ChildLocal10(Append(calls2,
                                   Call("log", RangeArgs(defaultBranch[1]), FALSE)))
                        : l \in GitLogRange(defaultBranch[1]) }
        : b \in GitBranchR }

\* Mutant: the second attempt asks for origin/main again.
ChildMaster_AsksMain(calls) ==
    UNION {
        IF l.ok
        THEN {[calls |-> Append(calls, Call("log", RangeArgs(OriginMain), TRUE)),
               commits |-> l.val, err |-> FALSE]}
        ELSE ChildDefault(Append(calls, Call("log", RangeArgs(OriginMain), FALSE)))
        : l \in GitLogRange(OriginMain) }

ChildMaster(calls) ==
    UNION {
        IF l.ok
        THEN {[calls |-> Append(calls, Call("log", RangeArgs(OriginMaster), TRUE)),
               commits |-> l.val, err |-> FALSE]}
        ELSE ChildDefault(Append(calls, Call("log", RangeArgs(OriginMaster), FALSE)))
        : l \in GitLogRange(OriginMaster) }

\* Mutant: origin/main is not tried.
ChildMain_Skipped(calls) == ChildMaster(calls)

\* Mutant: an origin/main query without commits goes on to origin/master.
ChildMain_EmptyFallsThrough(calls) ==
    UNION {
        IF l.ok /\ l.val # <<>>
        THEN {[calls |-> Append(calls, Call("log", RangeArgs(OriginMain), TRUE)),
               commits |-> l.val, err |-> FALSE]}
        ELSE ChildMaster(Append(calls, Call("log", RangeArgs(OriginMain), l.ok)))
        : l \in GitLogRange(OriginMain) }

ChildMain(calls) ==
    UNION {
        IF l.ok
        THEN {[calls |-> Append(calls, Call("log", RangeArgs(OriginMain), TRUE)),
               commits |-> l.val, err |-> FALSE]}
        ELSE ChildMaster(Append(calls, Call("log", RangeArgs(OriginMain), FALSE)))
        : l \in GitLogRange(OriginMain) }

ChildResolve(calls) ==
    UNION {
        IF ~r.ok
        THEN {[calls |-> Append(calls, Call("getRemotes", <<>>, FALSE)),
               commits |-> <<>>, err |-> TRUE]}
        ELSE LET calls2 == Append(calls, Call("getRemotes", <<>>, TRUE))
             IN  IF Len(r.val) > 0 THEN ChildMain(calls2) ELSE ChildLocal10(calls2)
        : r \in GitGetRemotes }

\* The tree item of one commit: its label's message and the arguments of its
\* editCommitDate command, [commit.hash, commit.date].
CommitItem(commit) ==
    [contextValue |-> "unpushed-commit", message |-> commit.message,
     hash |-> commit.hash, date |-> commit.date]

MapItems(commits) == [i \in 1..Len(commits) |-> CommitItem(commits[i])]

\* One run of a handler: what it was given, the calls it issued in order, the
\* tree items it returned, the messages it showed or posted, whether it ended
\* by throwing, and whether it fired a refresh of the tree.
Ran(op, input, calls, items, msgs, threw, refresh) ==
    [op |-> op, input |-> input, calls |-> calls, items |-> items,
     msgs |-> msgs, threw |-> threw, refresh |-> refresh]

\* A reply of the tree data provider.
Reply(op, element, items, calls, threw) ==
    Ran(op, <<element>>, calls, items, <<>>, threw, FALSE)

\* A run of a command or of a webview message handler.
Run(op, input, calls, msgs, refresh) ==
    Ran(op, input, calls, <<>>, msgs, FALSE, refresh)

NoRun == Run("none", <<>>, <<>>, <<>>, FALSE)

\* Mutant: the items on display are kept and returned again.
UnpushedChildren_Cached(calls) ==
    { Reply("children", "unpushed-commits",
            IF shown # <<>> THEN shown
            ELSE IF b.err THEN <<>> ELSE MapItems(b.commits), b.calls, FALSE)
      : b \in ChildResolve(calls) }

\* case 'unpushed-commits': the catch returns [].
UnpushedChildren(calls) ==
    { Reply("children", "unpushed-commits",
            IF b.err THEN <<>> ELSE MapItems(b.commits), b.calls, FALSE)
      : b \in ChildResolve(calls) }

FileItem(ctx, file) == [contextValue |-> ctx, file |-> file]

\* status.<group>.map(file => new GitTreeItem(file, ...))
FileItems(ctx, listed) == [i \in 1..Len(listed) |-> FileItem(ctx, listed[i])]

Groups == {"modified-group", "staged-group", "untracked-group", "unpushed-commits"}

\* getChildrenForElement(element): status() is awaited outside any try.
GetChildrenForElement(ctx) ==
    UNION {
        IF ~s.ok
        THEN {Reply("children", ctx, <<>>, <<Call("status", <<>>, FALSE)>>, TRUE)}
        ELSE LET calls == <<Call("status", <<>>, TRUE)>>
             IN  CASE ctx = "modified-group" ->
                        {Reply("children", ctx,
                               FileItems("modified-file", s.val.modified), calls, FALSE)}
                   [] ctx = "staged-group" ->
                        {Reply("children", ctx,
                               FileItems("staged-file", s.val.staged), calls, FALSE)}
                   [] ctx = "untracked-group" ->
                        {Reply("children", ctx,
                               FileItems("untracked-file", s.val.not_added), calls, FALSE)}
                   [] ctx = "unpushed-commits" -> UnpushedChildren(calls)
                   [] OTHER -> {Reply("children", ctx, <<>>, calls, FALSE)}
        : s \in GitStatus }

\* ------------------------------------------------ getChildren, root level

RootLocal10(calls) ==
    { [calls |-> Append(calls, Call("log", Last10Args, o.ok)),
       commits |-> o.val, err |-> ~o.ok] : o \in GitLogLast(LogLimit) }

RootDefault(calls) ==
    UNION {
        IF ~b.ok
        THEN RootLocal10(Append(calls, Call("branch", <<"-r">>, FALSE)))
        ELSE LET calls2 == Append(calls, Call("branch", <<"-r">>, TRUE))
                 defaultBranch == FindOrigin(b.val)
             IN  IF defaultBranch = <<>>
                 THEN {[calls |-> calls2, commits |-> <<>>, err |-> FALSE]}
                 ELSE UNION {
                        IF l.ok
                        THEN {[calls |-> Append(calls2,
                                   Call("log", RangeArgs(defaultBranch[1]), TRUE)),
                               commits |-> l.val, err |-> FALSE]}
                        ELSE RootLocal10(Append(calls2,
                                   Call("log", RangeArgs(defaultBranch[1]), FALSE)))
                        : l \in GitLogRange(defaultBranch[1]) }
        : b \in GitBranchR }

RootMaster(calls) ==
    UNION {
        IF l.ok
        THEN {[calls |-> Append(calls, Call("log", RangeArgs(OriginMaster), TRUE)),
               commits |-> l.val, err |-> FALSE]}
        ELSE RootDefault(Append(calls, Call("log", RangeArgs(OriginMaster), FALSE)))
        : l \in GitLogRange(OriginMaster) }

RootMain(calls) ==
    UNION {
        IF l.ok
        THEN {[calls |-> Append(calls, Call("log", RangeArgs(OriginMain), TRUE)),
               commits |-> l.val, err |-> FALSE]}
        ELSE RootMaster(Append(calls, Call("log", RangeArgs(OriginMain), FALSE)))
        : l \in GitLogRange(OriginMain) }

\* The header of the commit group: pushed only when there is a commit to show.
Header(title, commits) ==
    IF Len(commits) > 0
    THEN <<[contextValue |-> "unpushed-commits", title |-> title,
            count |-> Len(commits)]>>
    ELSE <<>>

\* The catch of the root level: the last ErrLogLimit commits, or no header.
RootLocal5(calls) ==
    { [calls |-> Append(calls, Call("log", Last5Args, o.ok)),
       header |-> IF o.ok THEN Header("local", o.val) ELSE <<>>]
      : o \in GitLogLast(ErrLogLimit) }

\* A block that ended as [calls, commits, err], as [calls, header].
RootHeader(title, blocks) ==
    UNION { IF b.err
            THEN RootLocal5(b.calls)
            ELSE {[calls |-> b.calls, header |-> Header(title, b.commits)]}
            : b \in blocks }

RootResolve(calls) ==
    UNION {
        IF ~r.ok
        THEN RootLocal5(Append(calls, Call("getRemotes", <<>>, FALSE)))
        ELSE LET calls2 == Append(calls, Call("getRemotes", <<>>, TRUE))
             IN  IF Len(r.val) > 0
                 THEN RootHeader("unpushed", RootMain(calls2))
                 ELSE RootHeader("latest", RootLocal10(calls2))
        : r \in GitGetRemotes }

Plain(ctx) == [contextValue |-> ctx]

GroupItem(ctx, listed) ==
    IF Len(listed) > 0 THEN <<[contextValue |-> ctx, count |-> Len(listed)]>> ELSE <<>>

\* The items of the root level before the commit group.
StatusItems(status) ==
    <<Plain("branch")>>
        \o (IF status.tracking # <<>> THEN <<Plain("tracking")>> ELSE <<>>)
        \o GroupItem("modified-group", status.modified)
        \o GroupItem("staged-group", status.staged)
        \o GroupItem("untracked-group", status.not_added)

\* Mutant: a rejected query of the commit group reaches the outer catch.
GetChildrenRoot_Aborts ==
    UNION {
        IF ~s.ok
        THEN {Reply("root", "", <<Plain("error")>>, <<Call("status", <<>>, FALSE)>>, FALSE)}
        ELSE { Reply("root", "",
                     IF \E i \in 1..Len(r.calls) : ~r.calls[i].ok
                     THEN <<Plain("error")>>
                     ELSE StatusItems(s.val) \o r.header \o <<Plain("action")>>,
                     r.calls, FALSE)
               : r \in RootResolve(<<Call("status", <<>>, TRUE)>>) }
        : s \in GitStatus }

\* getChildren() at the root: a failing status() gives the error item.
GetChildrenRoot ==
    UNION {
        IF ~s.ok
        THEN {Reply("root", "", <<Plain("error")>>, <<Call("status", <<>>, FALSE)>>, FALSE)}
        ELSE { Reply("root", "",
                     StatusItems(s.val) \o r.header \o <<Plain("action")>>,
                     r.calls, FALSE)
               : r \in RootResolve(<<Call("status", <<>>, TRUE)>>) }
        : s \in GitStatus }

\* ---------------------------------------------------------------- states

\* The initial history: commit i carries message i; the first commit was
\* committed when it was authored, the later ones after (as a rebase leaves them).
BaseChain(n) == [i \in 1..n |-> [msg |-> i, ad |-> 1, cd |-> Min(i, MaxDate)]]

\* A remote-tracking branch exists only for a configured remote.  pos picks how
\* far behind HEAD a branch of origin points (more than MaxAhead: no such
\* branch); a branch of another remote is at HEAD (pos 0) or does not exist.
RefAt(b, rem, n, pos) ==
    IF /\ \E i \in 1..Len(rem) : rem[i] = b[1]
       /\ pos < n
       /\ IF b[1] = "origin" THEN pos <= MaxAhead ELSE pos = 0
    THEN BaseChain(n - pos)
    ELSE <<>>

NoFiles == [f \in Files |-> "clean"]

\* The initial states: a history of one of the given lengths, some of the given
\* remotes and remote-tracking branches, the files in one of the given states.
\* Without a workspace folder there is no repository to look at.
InitRepo(lengths, remoteChoices, names, fileChoices) ==
    /\ workspace \in BOOLEAN
    /\ IF workspace
       THEN \E n \in lengths, pos \in [names -> 0..(MaxAhead + 1)] :
              /\ head = BaseChain(n)
              /\ remotes \in remoteChoices
              /\ rrefs = [b \in BranchNames |->
                            IF b \in names THEN RefAt(b, remotes, n, pos[b]) ELSE <<>>]
              /\ files \in fileChoices
       ELSE /\ head = <<>>
            /\ remotes = <<>>
            /\ rrefs = [b \in BranchNames |-> <<>>]
            /\ files = NoFiles
    /\ backup = FALSE
    /\ panel = FALSE
    /\ editorGit = "cwd"
    /\ shown = <<>>
    /\ inflight = <<>>
    /\ last = NoRun

\* ------------------------------------------------------------- tree view

\* getChildren(element) without a workspace folder: the informational item.
GetChildrenNoWorkspace ==
    /\ ~workspace
    /\ last' = Reply("noWorkspace", "", <<Plain("info")>>, <<>>, FALSE)
    /\ UNCHANGED <<workspace, repo, panel, editorGit, shown, inflight>>

\* getChildren(element) with a group element: getChildrenForElement(element).
\* The view displays the commit items it is given.
GetChildrenOfElement ==
    /\ workspace
    /\ \E ctx \in Groups : last' \in GetChildrenForElement(ctx)
    /\ shown' = IF last'.input = <<"unpushed-commits">> /\ ~last'.threw
                THEN last'.items ELSE shown
    /\ UNCHANGED <<workspace, repo, panel, editorGit, inflight>>

\* getChildren() without an element.
GetChildrenAtRoot ==
    /\ workspace
    /\ last' \in GetChildrenRoot
    /\ UNCHANGED <<workspace, repo, panel, editorGit, shown, inflight>>

\* ------------------------------------------------------ stage and unstage

StagedBy(listed) ==
    [f \in Files |->
        IF (\E i \in 1..Len(listed) : listed[i] = f) /\ files[f] \in {"modified", "untracked"}
        THEN "staged" ELSE files[f]]

\* stageFileCommand: git.add(fileName), refresh, information message.  On a
\* refresh the view drops the items it displays and asks for them again.
StageFile ==
    /\ \E f \in Files :
         IF ~workspace
         THEN /\ last' = Run("stageFile", <<f>>, <<>>, <<>>, FALSE)
              /\ UNCHANGED files
         ELSE \E o \in Outcomes(<<>>, FALSE) :
                /\ last' = Run("stageFile", <<f>>, <<Call("add", <<f>>, o.ok)>>,
                             IF o.ok THEN <<"information">> ELSE <<"error">>, o.ok)
                /\ files' = IF o.ok THEN StagedBy(<<f>>) ELSE files
    /\ shown' = IF last'.refresh THEN <<>> ELSE shown
    /\ UNCHANGED <<workspace, head, feature, remotes, rrefs, backup, panel, editorGit, inflight>>

\* unstageFileCommand: git.reset(['HEAD', fileName]); git cannot resolve HEAD
\* while the branch has no commit.
UnstageFile ==
    /\ \E f \in Files :
         IF ~workspace
         THEN /\ last' = Run("unstageFile", <<f>>, <<>>, <<>>, FALSE)
              /\ UNCHANGED files
         ELSE \E o \in Outcomes(<<>>, head = <<>>) :
                /\ last' = Run("unstageFile", <<f>>, <<Call("reset", <<"HEAD", f>>, o.ok)>>,
                             IF o.ok THEN <<"information">> ELSE <<"error">>, o.ok)
                /\ files' = IF o.ok /\ files[f] = "staged"
                            THEN [files EXCEPT ![f] = "modified"] ELSE files
    /\ shown' = IF last'.refresh THEN <<>> ELSE shown
    /\ UNCHANGED <<workspace, head, feature, remotes, rrefs, backup, panel, editorGit, inflight>>

\* -------------------------------------------------------- editCommitDate

\* Mutant: the filter exports the author date alone.
EnvFilter_AuthorOnly(chain, commitHash, newDate) ==
    [i \in 1..Len(chain) |->
        IF Hash(chain, i) = commitHash
        THEN [chain[i] EXCEPT !.ad = newDate]
        ELSE chain[i]]

\* The --env-filter of the command: for the commit whose hash (GIT_COMMIT) is
\* commitHash, both dates are exported as newDate; every commit of the chain is
\* written again, on its rewritten parent.
EnvFilter(chain, commitHash, newDate) ==
    [i \in 1..Len(chain) |->
        IF Hash(chain, i) = commitHash
        THEN [chain[i] EXCEPT !.ad = newDate, !.cd = newDate]
        ELSE chain[i]]

\* Mutant: the current branch alone is rewritten.
FilterBranch_HeadOnly(commitHash, newDate) ==
    [head |-> [i \in 1..Len(head) |->
                 IF Hash(head, i) = commitHash
                 THEN [head[i] EXCEPT !.ad = newDate, !.cd = newDate]
                 ELSE head[i]],
     feature |-> feature,
     rrefs |-> rrefs]

\* `-- --all`: every ref is rewritten: HEAD's branch, the other local branch
\* and the remote-tracking branches.
FilterBranch(commitHash, newDate) ==
    [head |-> EnvFilter(head, commitHash, newDate),
     feature |-> EnvFilter(feature, commitHash, newDate),
     rrefs |-> [b \in BranchNames |-> EnvFilter(rrefs[b], commitHash, newDate)]]

AllChains == {head, feature} \cup {rrefs[b] : b \in BranchNames}

Dirty == \E f \in Files : files[f] \in {"modified", "staged"}

\* git filter-branch refuses to run on a working copy with changes and while a
\* backup of an earlier run is in refs/original, and cannot write a commit with
\* a date git does not parse (newDate -1).
FilterBranchFails(commitHash, newDate) ==
    \/ Dirty
    \/ backup
    \/ newDate = -1 /\ \E c \in AllChains : commitHash \in Reachable(c)

\* Mutant: a text that is not a timestamp is refused like an empty one.
Submits_Validated(newDate) == newDate \in Dates

\* `if (!newDate) return`: every non-empty text goes on to the rewrite.
Submits(newDate) == newDate # 0

\* editCommitDateCommand(commitHash, currentDate), run from a commit item of the
\* tree: the item passes commit.date as currentDate, so git.show is not called.
\* newDate is what the input box returns: 0 for undefined or '', -1 for a text
\* git does not parse, else a timestamp.
EditCommitDate ==
    /\ \E i \in 1..Len(shown), newDate \in {0, -1} \cup Dates :
         LET commitHash == shown[i].hash
             input == [commitHash |-> commitHash, newDate |-> newDate]
         IN  IF ~workspace \/ ~Submits(newDate)
             THEN /\ last' = Run("editCommitDate", input, <<>>, <<>>, FALSE)
                  /\ UNCHANGED <<head, feature, rrefs, backup>>
             ELSE \E o \in Outcomes(FilterBranch(commitHash, newDate),
                                    FilterBranchFails(commitHash, newDate)) :
                    /\ last' = Run("editCommitDate", input,
                                 <<Call("raw", <<"filter-branch", "--all">>, o.ok)>>,
                                 IF o.ok THEN <<"information">> ELSE <<"error">>, o.ok)
                    /\ IF o.ok
                       THEN /\ head' = o.val.head
                            /\ feature' = o.val.feature
                            /\ rrefs' = o.val.rrefs
                            /\ backup' = (backup \/ o.val.head # head
                                          \/ o.val.feature # feature \/ o.val.rrefs # rrefs)
                       ELSE UNCHANGED <<head, feature, rrefs, backup>>
    /\ shown' = IF last'.refresh THEN <<>> ELSE shown
    /\ UNCHANGED <<workspace, remotes, files, panel, editorGit, inflight>>

\* --------------------------------------------------------- commit editor

\* handleGetStatus(webview), after the calls and messages of its caller: ends as
\* [calls, msgs, git], git being what this.git is bound to afterwards.
HandleGetStatus(calls, msgs) ==
    IF ~workspace
    THEN {[calls |-> calls, msgs |-> Append(msgs, "error"), git |-> editorGit]}
    ELSE { [calls |-> Append(calls, Call("status", <<>>, o.ok)),
            msgs |-> Append(msgs, IF o.ok THEN "statusUpdate" ELSE "error"),
            git |-> "workspace"] : o \in GitStatus }

\* showCommitEditor(panel): the handler is registered, then handleGetStatus.
ShowCommitEditor ==
    /\ panel' = TRUE
    /\ \E r \in HandleGetStatus(<<>>, <<>>) :
         /\ last' = Run("showCommitEditor", <<>>, r.calls, r.msgs, FALSE)
         /\ editorGit' = r.git
    /\ UNCHANGED <<workspace, repo, shown, inflight>>

\* message 'getStatus'
GetStatusMessage ==
    /\ panel
    /\ \E r \in HandleGetStatus(<<>>, <<>>) :
         /\ last' = Run("getStatus", <<>>, r.calls, r.msgs, FALSE)
         /\ editorGit' = r.git
    /\ UNCHANGED <<workspace, repo, panel, shown, inflight>>

\* this.git.commit(commitMessage[, [], {'--date': commitDate}]) on the workspace:
\* the set of [ok, head, files].  now is the committer's clock.  With nothing
\* staged git writes no commit, and the binding resolves or rejects; a date git
\* does not parse (-1) makes it fail.
GitCommit(staging, commitMessage, commitDate) ==
    LET nothing == \A f \in Files : staging[f] # "staged"
        failed == [ok |-> FALSE, head |-> head, files |-> staging]
    IN  {failed}
          \cup (IF nothing THEN {[failed EXCEPT !.ok = TRUE]} ELSE {})
          \cup (IF nothing \/ commitDate = -1
                THEN {}
                ELSE { [ok |-> TRUE,
                        head |-> Append(head,
                            [msg |-> commitMessage,
                             ad |-> IF commitDate # 0 THEN commitDate ELSE now,
                             cd |-> now]),
                        files |-> [f \in Files |->
                            IF staging[f] = "staged" THEN "clean" ELSE staging[f]]]
                       : now \in Dates })

\* Mutant: a rejected add is reported and the commit is made all the same.
HandleCommit_CommitsAfterFailedAdd(commitMessage, listed, commitDate) ==
    UNION {
        LET calls == IF Len(listed) > 0 THEN <<Call("add", listed, a.ok)>> ELSE <<>>
            said == IF a.ok THEN <<>> ELSE <<"error">>
            dateArgs == IF commitDate # 0 THEN <<"--date">> ELSE <<>>
        IN  UNION {
              IF ~c.ok
              THEN {[calls |-> Append(calls, Call("commit", dateArgs, FALSE)),
                     msgs |-> <<"error">>,
                     head |-> c.head, files |-> c.files, git |-> editorGit]}
              ELSE { [calls |-> r.calls, msgs |-> r.msgs,
                      head |-> c.head, files |-> c.files, git |-> r.git]
                     : r \in HandleGetStatus(
                           Append(calls, Call("commit", dateArgs, TRUE)),
                           Append(said, "commitSuccess")) }
              : c \in GitCommit(IF a.ok THEN a.val ELSE files, commitMessage, commitDate) }
        : a \in IF Len(listed) > 0
                THEN Outcomes(StagedBy(listed), FALSE)
                ELSE {[ok |-> TRUE, val |-> files]} }

\* handleCommit(webview, commitMessage, files, commitDate) on the workspace's
\* repository: the set of [calls, msgs, head, files, git].
HandleCommit(commitMessage, listed, commitDate) ==
    UNION {
        IF ~a.ok
        THEN {[calls |-> <<Call("add", listed, FALSE)>>, msgs |-> <<"error">>,
               head |-> head, files |-> files, git |-> editorGit]}
        ELSE LET calls == IF Len(listed) > 0 THEN <<Call("add", listed, TRUE)>> ELSE <<>>
                 dateArgs == IF commitDate # 0 THEN <<"--date">> ELSE <<>>
             IN  UNION {
                   IF ~c.ok
                   THEN {[calls |-> Append(calls, Call("commit", dateArgs, FALSE)),
                          msgs |-> <<"error">>,
                          head |-> c.head, files |-> c.files, git |-> editorGit]}
                   ELSE { [calls |-> r.calls, msgs |-> r.msgs,
                           head |-> c.head, files |-> c.files, git |-> r.git]
                          : r \in HandleGetStatus(
                                Append(calls, Call("commit", dateArgs, TRUE)),
                                <<"commitSuccess">>) }
                   : c \in GitCommit(a.val, commitMessage, commitDate) }
        : a \in IF Len(listed) > 0
                THEN Outcomes(StagedBy(listed), FALSE)
                ELSE {[ok |-> TRUE, val |-> files]} }

\* The lists of files a message can carry.
FileLists == {<<>>, FileOrder}

\* message 'commit': handleCommit with the fields of the message.  A handle
\* that was never bound to the workspace works on the process directory, which
\* is not this repository.
CommitMessage ==
    /\ panel
    /\ Len(head) <= MaxNew
    /\ \E listed \in FileLists, commitDate \in {0, -1} \cup Dates :
         LET input == [files |-> listed, commitDate |-> commitDate]
         IN  \E r \in HandleCommit(0, listed, commitDate) :
               /\ last' = Run("commit", input, r.calls, r.msgs, FALSE)
               /\ editorGit' = r.git
               /\ IF editorGit = "workspace"
                  THEN head' = r.head /\ files' = r.files
                  ELSE UNCHANGED <<head, files>>
    /\ UNCHANGED <<workspace, feature, remotes, rrefs, backup, panel, shown, inflight>>

\* The commit button of the webview: an empty message or an empty selection is
\* refused with a message in the page, else the 'commit' message is posted and
\* handled.  commitMessage is 0 for the text typed, -1 for an empty text.
CommitButton ==
    /\ panel
    /\ Len(head) <= MaxNew
    /\ \E commitMessage \in {0, -1}, listed \in FileLists, commitDate \in {0} \cup Dates :
         LET input == [files |-> listed, commitDate |-> commitDate]
         IN  IF commitMessage = -1 \/ Len(listed) = 0
             THEN /\ last' = Run("commitButton", input, <<>>, <<"validation">>, FALSE)
                  /\ UNCHANGED <<head, files, editorGit>>
             ELSE \E r \in HandleCommit(commitMessage, listed, commitDate) :
                    /\ last' = Run("commitButton", input, r.calls, r.msgs, FALSE)
                    /\ editorGit' = r.git
                    /\ IF editorGit = "workspace"
                       THEN head' = r.head /\ files' = r.files
                       ELSE UNCHANGED <<head, files>>
    /\ UNCHANGED <<workspace, feature, remotes, rrefs, backup, panel, shown, inflight>>

\* ------------------------------------------------------------------ push

IsPrefix(s, t) == Len(s) <= Len(t) /\ SubSeq(t, 1, Len(s)) = s

HasOrigin == \E i \in 1..Len(remotes) : remotes[i] = "origin"

\* git push without arguments: needs a commit, an upstream of the current
\* branch on a configured remote, and a history that extends the upstream's
\* (a rewritten history is refused as not fast-forward).
PushFails ==
    \/ head = <<>>
    \/ Tracking = <<>>
    \/ ~HasOrigin
    \/ ~IsPrefix(rrefs[OriginMain], head)

\* this.git.push(): afterwards the upstream points at HEAD's commit.
GitPush == Outcomes([rrefs EXCEPT ![OriginMain] = head], PushFails)

\* this.git.push() on a handle that was never bound to the workspace: the
\* process directory is not this repository, and the call may end either way.
GitPushElsewhere == {[ok |-> FALSE, val |-> rrefs], [ok |-> TRUE, val |-> rrefs]}

\* message 'push': handlePush.
PushMessage ==
    /\ panel
    /\ \E o \in IF editorGit = "workspace" THEN GitPush ELSE GitPushElsewhere :
         /\ last' = Run("push", <<>>, <<Call("push", <<>>, o.ok)>>,
                      IF o.ok THEN <<"pushSuccess">> ELSE <<"error">>, FALSE)
         /\ rrefs' = IF o.ok THEN o.val ELSE rrefs
    /\ UNCHANGED <<workspace, head, feature, remotes, backup, files, panel, editorGit,
                   shown, inflight>>

\* ------------------------------------------------------------ diff viewer

\* The arguments of the diff call for a file listed as modified or staged.
DiffArgs(fileName, fileStatus) ==
    IF fileStatus = "staged" THEN <<"--cached", fileName>> ELSE <<fileName>>

\* showFileDiff(fileName, fileStatus): the set of [calls, msgs].  The page shows
\* the diff, or the error page when the diff call rejects; the content of an
\* untracked file is read from the workspace without a call of git, and a
\* failure to read it becomes the text of the page.
ShowFileDiffRuns(fileName, fileStatus) ==
    IF fileStatus = "untracked"
    THEN {[calls |-> <<>>, msgs |-> <<"diff">>]}
    ELSE { [calls |-> <<Call("diff", DiffArgs(fileName, fileStatus), o.ok)>>,
            msgs |-> IF o.ok THEN <<"diff">> ELSE <<"diffError">>]
           : o \in Outcomes(<<>>, FALSE) }

\* showFileDiffCommand, run from a file item of the tree or with any arguments.
ShowFileDiff ==
    /\ \E f \in Files, fileStatus \in {"modified", "staged", "untracked"} :
         \E r \in ShowFileDiffRuns(f, fileStatus) :
           last' = Run("showFileDiff", <<f, fileStatus>>, r.calls, r.msgs, FALSE)
    /\ UNCHANGED <<workspace, repo, panel, editorGit, shown, inflight>>

\* -------------------------------------------------------- calls in flight

\* A handler is an async function: it runs up to the await of its tool call,
\* and the rest runs when the call returns.  In between, the extension host
\* runs whatever handler the next event starts.  The handlers below await one
\* tool call each.

MaxInFlight == 2   \* handlers that may be waiting for their call at once

\* A call that was started: the handler that awaits it, what it was given, and
\* the handle the call was made on: the editor's this.git for a push, a handle
\* made on the workspace folder for the others.
Started(op, input, call, args) ==
    [op |-> op, input |-> input, call |-> call, args |-> args,
     git |-> IF op = "push" THEN editorGit ELSE "workspace",
     calls |-> <<>>, msgs |-> <<>>]

Without(s, i) == SubSeq(s, 1, i - 1) \o SubSeq(s, i + 1, Len(s))

\* stageFileCommand up to `await git.add(fileName)`, on a handle of its own.
StartStageFile ==
    /\ workspace
    /\ Len(inflight) < MaxInFlight
    /\ \E f \in Files : inflight' = Append(inflight, Started("stageFile", <<f>>, "add", <<f>>))
    /\ UNCHANGED <<workspace, repo, panel, editorGit, shown, last>>

\* unstageFileCommand up to `await git.reset(['HEAD', fileName])`.
StartUnstageFile ==
    /\ workspace
    /\ Len(inflight) < MaxInFlight
    /\ \E f \in Files :
         inflight' = Append(inflight, Started("unstageFile", <<f>>, "reset", <<"HEAD", f>>))
    /\ UNCHANGED <<workspace, repo, panel, editorGit, shown, last>>

\* Mutant: the status is asked on a handle of its own, and this.git stays the
\* handle of the constructor.
StartHandleGetStatus_KeepsHandle(op) ==
    IF workspace
    THEN /\ Len(inflight) < MaxInFlight
         /\ inflight' = Append(inflight, Started(op, <<>>, "status", <<>>))
         /\ UNCHANGED <<last, editorGit>>
    ELSE /\ last' = Run(op, <<>>, <<>>, <<"error">>, FALSE)
         /\ UNCHANGED <<inflight, editorGit>>

\* handleGetStatus up to `await this.git.status()`: this.git is a new handle
\* on the workspace.  Without a workspace folder it ends with the error message.
StartHandleGetStatus(op) ==
    IF workspace
    THEN /\ Len(inflight) < MaxInFlight
         /\ inflight' = Append(inflight, Started(op, <<>>, "status", <<>>))
         /\ editorGit' = "workspace"
         /\ UNCHANGED last
    ELSE /\ last' = Run(op, <<>>, <<>>, <<"error">>, FALSE)
         /\ UNCHANGED <<inflight, editorGit>>

\* showCommitEditor(panel): the page is set and the handler registered, then
\* handleGetStatus.  The page's script posts 'getStatus' once it is loaded.
StartShowCommitEditor ==
    /\ ~panel
    /\ panel' = TRUE
    /\ StartHandleGetStatus("showCommitEditor")
    /\ UNCHANGED <<workspace, repo, shown>>

\* message 'getStatus', from the page's script or its refresh button.
StartGetStatusMessage ==
    /\ panel
    /\ StartHandleGetStatus("getStatus")
    /\ UNCHANGED <<workspace, repo, panel, shown>>

\* message 'push': handlePush up to `await this.git.push()`, on the handle
\* this.git holds when the message arrives.
StartPushMessage ==
    /\ panel
    /\ Len(inflight) < MaxInFlight
    /\ inflight' = Append(inflight, Started("push", <<>>, "push", <<>>))
    /\ UNCHANGED <<workspace, repo, panel, editorGit, shown, last>>

\* What the return of a started call does: the set of [ok, files, rrefs].
Returns(s) ==
    LET same == [files |-> files, rrefs |-> rrefs]
        With(o, after) == [ok |-> o.ok, files |-> IF o.ok THEN after.files ELSE files,
                           rrefs |-> IF o.ok THEN after.rrefs ELSE rrefs]
    IN  CASE s.call = "add" ->
               {With(o, [same EXCEPT !.files = StagedBy(s.input)]) : o \in Outcomes(<<>>, FALSE)}
          [] s.call = "reset" ->
               {With(o, [same EXCEPT !.files =
                            IF files[s.input[1]] = "staged"
                            THEN [files EXCEPT ![s.input[1]] = "modified"] ELSE files])
                : o \in Outcomes(<<>>, head = <<>>)}
          [] s.call = "push" ->
               {With(o, [same EXCEPT !.rrefs = o.val])
                : o \in IF s.git = "workspace" THEN GitPush ELSE GitPushElsewhere}
          [] OTHER -> {With(o, same) : o \in GitStatus}

\* What the handler shows once its call has returned.
Shows(s, ok) ==
    CASE ~ok -> <<"error">>
      [] s.call = "status" -> <<"statusUpdate">>
      [] s.call = "push" -> <<"pushSuccess">>
      [] OTHER -> <<"information">>

\* The started call of a handler that awaits one call returns, and the handler
\* runs to its end.
ReturnCall ==
    /\ \E i \in 1..Len(inflight) :
         /\ inflight[i].op # "commit"
         /\ \E r \in Returns(inflight[i]) :
              LET s == inflight[i]
              IN  /\ inflight' = Without(inflight, i)
                  /\ files' = r.files
                  /\ rrefs' = r.rrefs
                  /\ last' = Run(s.op, s.input, <<Call(s.call, s.args, r.ok)>>,
                                 Shows(s, r.ok), r.ok /\ s.call \in {"add", "reset"})
    /\ shown' = IF last'.refresh THEN <<>> ELSE shown
    /\ UNCHANGED <<workspace, head, feature, remotes, backup, panel, editorGit>>

\* ---------------------------------------------- handleCommit, call by call

\* handleCommit awaits up to three calls one after the other: add, commit, and
\* the status of the handleGetStatus it ends with.  Between two of them the
\* extension host runs the handlers of whatever messages arrive.

\* handleCommit waiting for a call: the call is made on the handle this.git
\* holds when it is issued; calls and msgs are the calls that have returned and
\* the messages posted so far.
StartedCommit(input, call, args, calls, msgs) ==
    [op |-> "commit", input |-> input, call |-> call, args |-> args,
     git |-> editorGit, calls |-> calls, msgs |-> msgs]

\* Mutant: the commit is made without the date.
DateArgs_Never(commitDate) == <<>>

\* The options of the commit call: `if (commitDate)` takes the branch with
\* {'--date': commitDate}.  commitDate is 0 when the message carries none (null,
\* or an empty text).
DateArgs(commitDate) == IF commitDate # 0 THEN <<"--date">> ELSE <<>>

\* The commit runs of handleCommit that have not ended.
CommitsInFlight == {i \in 1..Len(inflight) : inflight[i].op = "commit"}

\* message 'commit': handleCommit up to its first await, `await
\* this.git.add(files)` for a list with files, the commit call for an empty one.
\* The message carries no date (0), a text git does not parse (-1), or a date.
StartCommitMessage ==
    /\ panel
    /\ Len(inflight) < MaxInFlight
    /\ Len(head) + Cardinality(CommitsInFlight) <= MaxNew
    /\ \E listed \in FileLists, commitDate \in {0, -1, MaxDate} :
         LET input == [files |-> listed, commitDate |-> commitDate]
         IN  inflight' = Append(inflight,
                 IF Len(listed) > 0
                 THEN StartedCommit(input, "add", listed, <<>>, <<>>)
                 ELSE StartedCommit(input, "commit", DateArgs(commitDate), <<>>, <<>>))
    /\ UNCHANGED <<workspace, repo, panel, editorGit, shown, last>>

\* A call on a handle that is not bound to the workspace: the process directory
\* is not this repository, and the call may end either way.
Elsewhere == {[ok |-> FALSE], [ok |-> TRUE]}

\* handleCommit ends: the catch block posts 'error', or handleGetStatus has
\* posted its message.
CommitEnds(i, calls, msgs) ==
    /\ inflight' = Without(inflight, i)
    /\ last' = Run("commit", inflight[i].input, calls, msgs, FALSE)

\* `await this.git.add(files)` returns: a rejection goes to the catch block,
\* else the commit call is issued.
ReturnCommitAdd ==
    /\ \E i \in CommitsInFlight :
         LET s == inflight[i]
         IN  /\ s.call = "add"
             /\ \E o \in IF s.git = "workspace"
                          THEN Outcomes(StagedBy(s.input.files), FALSE) ELSE Elsewhere :
                  LET calls == Append(s.calls, Call("add", s.args, o.ok))
                  IN  IF ~o.ok
                      THEN /\ CommitEnds(i, calls, <<"error">>)
                           /\ UNCHANGED files
                      ELSE /\ files' = IF s.git = "workspace" THEN o.val ELSE files
                           /\ inflight' = [inflight EXCEPT ![i] =
                                  StartedCommit(s.input, "commit",
                                                DateArgs(s.input.commitDate), calls, s.msgs)]
                           /\ UNCHANGED last
    /\ UNCHANGED <<workspace, head, feature, remotes, rrefs, backup, panel, editorGit, shown>>

\* handleGetStatus as the last statement of handleCommit, up to its await: the
\* error message without a workspace folder, else this.git is a new handle on
\* the workspace and the status call is issued.
CommitAsksStatus(i, calls, msgs) ==
    IF ~workspace
    THEN /\ CommitEnds(i, calls, Append(msgs, "error"))
         /\ UNCHANGED editorGit
    ELSE /\ editorGit' = "workspace"
         /\ inflight' = [inflight EXCEPT ![i] =
                [op |-> "commit", input |-> inflight[i].input, call |-> "status",
                 args |-> <<>>, git |-> "workspace", calls |-> calls, msgs |-> msgs]]
         /\ UNCHANGED last

\* The commit call returns: a rejection goes to the catch block, else
\* 'commitSuccess' is posted and handleGetStatus is called.
ReturnCommitCommit ==
    /\ \E i \in CommitsInFlight :
         LET s == inflight[i]
         IN  /\ s.call = "commit"
             /\ \E c \in IF s.git = "workspace"
                          THEN GitCommit(files, 0, s.input.commitDate)
                          ELSE {[ok |-> e.ok, head |-> head, files |-> files] : e \in Elsewhere} :
                  LET calls == Append(s.calls, Call("commit", s.args, c.ok))
                  IN  /\ head' = c.head
                      /\ files' = c.files
                      /\ IF ~c.ok
                         THEN /\ CommitEnds(i, calls, <<"error">>)
                              /\ UNCHANGED editorGit
                         ELSE CommitAsksStatus(i, calls, Append(s.msgs, "commitSuccess"))
    /\ UNCHANGED <<workspace, feature, remotes, rrefs, backup, panel, shown>>

\* The status call of that handleGetStatus returns: 'statusUpdate' is posted,
\* or 'error' by its own catch block.
ReturnCommitStatus ==
    /\ \E i \in CommitsInFlight :
         LET s == inflight[i]
         IN  /\ s.call = "status"
             /\ \E o \in GitStatus :
                  CommitEnds(i, Append(s.calls, Call("status", <<>>, o.ok)),
                             Append(s.msgs, IF o.ok THEN "statusUpdate" ELSE "error"))
    /\ UNCHANGED <<workspace, repo, panel, editorGit, shown>>

\* -------------------------------------------------------- specifications

AllRemotes == {<<>>, <<"origin">>, <<"upstream">>, <<"origin", "upstream">>}

\* The tree view over histories at and beyond the limit of the log queries,
\* and over an empty repository.
InitLog ==
    /\ InitRepo({0} \cup LogLimit..MaxCommits, AllRemotes, BranchNames, {NoFiles})
    /\ feature = <<>>

NextLog ==
    \/ GetChildrenNoWorkspace
    \/ GetChildrenOfElement
    \/ GetChildrenAtRoot

SpecLog == InitLog /\ [][NextLog]_vars

\* The second local branch: none, or one commit of its own on top of the first
\* k commits of HEAD's history.
FeatureChoices ==
    {<<>>} \cup {Append(SubSeq(head, 1, k), [msg |-> -1, ad |-> 1, cd |-> 1])
                 : k \in 0..Min(MaxFork, Len(head))}

\* The commit items of the tree and the date rewrite, over short histories
\* with a second local branch.
InitRewrite ==
    /\ InitRepo(0..MaxHist, {<<>>, <<"origin">>}, {OriginMain},
                [Files -> {"clean", "modified"}])
    /\ feature \in IF workspace THEN FeatureChoices ELSE {<<>>}

NextRewrite ==
    \/ GetChildrenNoWorkspace
    \/ GetChildrenOfElement
    \/ EditCommitDate

SpecRewrite == InitRewrite /\ [][NextRewrite]_vars

\* The commit editor and the stage commands.
InitEditor ==
    /\ InitRepo(0..MaxNew, {<<>>, <<"origin">>}, {OriginMain}, [Files -> FileStates])
    /\ feature = <<>>

NextEditor ==
    \/ StageFile
    \/ UnstageFile
    \/ ShowCommitEditor
    \/ GetStatusMessage
    \/ CommitMessage
    \/ CommitButton
    \/ PushMessage
    \/ ShowFileDiff

SpecEditor == InitEditor /\ [][NextEditor]_vars

\* The whole extension, every handler interleaved, over the short histories of
\* the commit editor with a second local branch.
Init ==
    /\ InitRepo(0..MaxNew, {<<>>, <<"origin">>}, {OriginMain}, [Files -> FileStates])
    /\ feature \in IF workspace THEN FeatureChoices ELSE {<<>>}

Next ==
    \/ GetChildrenNoWorkspace
    \/ GetChildrenOfElement
    \/ GetChildrenAtRoot
    \/ StageFile
    \/ UnstageFile
    \/ EditCommitDate
    \/ ShowCommitEditor
    \/ GetStatusMessage
    \/ CommitMessage
    \/ CommitButton
    \/ PushMessage
    \/ ShowFileDiff

Spec == Init /\ [][Next]_vars

\* The handlers that await one call, interleaved at their awaits.
InitAsync ==
    /\ InitRepo(0..MaxNew, {<<>>, <<"origin">>}, {OriginMain}, [Files -> FileStates])
    /\ feature = <<>>

NextAsync ==
    \/ StartStageFile
    \/ StartUnstageFile
    \/ StartShowCommitEditor
    \/ StartGetStatusMessage
    \/ StartPushMessage
    \/ ReturnCall

SpecAsync == InitAsync /\ [][NextAsync]_vars

\* The messages of the commit editor, interleaved at every await of their
\* handlers, over histories that leave room for one commit or for two at once.
InitCommit ==
    /\ InitRepo({MaxNew - 1, MaxNew}, {<<"origin">>}, {OriginMain}, [Files -> FileStates])
    /\ feature = <<>>

NextCommit ==
    \/ StartShowCommitEditor
    \/ StartGetStatusMessage
    \/ StartPushMessage
    \/ StartCommitMessage
    \/ ReturnCall
    \/ ReturnCommitAdd
    \/ ReturnCommitCommit
    \/ ReturnCommitStatus

SpecCommit == InitCommit /\ [][NextCommit]_vars

\* The tree view while the commit editor changes the repository: a commit or
\* a push fires no refresh of the tree.
InitView ==
    /\ InitRepo(0..MaxNew, {<<>>, <<"origin">>}, {OriginMain}, [Files -> FileStates])
    /\ feature = <<>>

NextView ==
    \/ GetChildrenNoWorkspace
    \/ GetChildrenOfElement
    \/ GetChildrenAtRoot
    \/ ShowCommitEditor
    \/ CommitButton
    \/ PushMessage

SpecView == InitView /\ [][NextView]_vars

\* The actions that change the repository: stage, unstage, commit, push and
\* the date rewrite (run from the commit items the tree displays).
InitMutate ==
    /\ InitRepo(0..MaxNew, {<<>>, <<"origin">>}, {OriginMain}, [Files -> FileStates])
    /\ feature = <<>>

NextMutate ==
    \/ GetChildrenOfElement
    \/ StageFile
    \/ UnstageFile
    \/ EditCommitDate
    \/ ShowCommitEditor
    \/ CommitMessage
    \/ PushMessage

SpecMutate == InitMutate /\ [][NextMutate]_vars

\* ------------------------------------------------------------ properties

\* The last run is the expansion of the commit group / the root level.
UnpushedReply == last.op = "children" /\ last.input = <<"unpushed-commits">>
RootReply == last.op = "root"
Resolved == UnpushedReply \/ RootReply

StatusOk == Call("status", <<>>, TRUE)
RemotesOk == Call("getRemotes", <<>>, TRUE)
RemotesErr == Call("getRemotes", <<>>, FALSE)
RangeOk(ref) == Call("log", RangeArgs(ref), TRUE)
RangeErr(ref) == Call("log", RangeArgs(ref), FALSE)
BranchOk == Call("branch", <<"-r">>, TRUE)
BranchErr == Call("branch", <<"-r">>, FALSE)
Local10Ok == Call("log", Last10Args, TRUE)
Local10Err == Call("log", Last10Args, FALSE)
Local5Ok == Call("log", Last5Args, TRUE)
Local5Err == Call("log", Last5Args, FALSE)

Issued(call) == \E i \in 1..Len(last.calls) : last.calls[i] = call

StartsWith(prefix) ==
    Len(last.calls) >= Len(prefix) /\ SubSeq(last.calls, 1, Len(prefix)) = prefix

\* The commit of HEAD's history at position i, as the tree shows it.
ItemAt(i) ==
    [contextValue |-> "unpushed-commit", message |-> head[i].msg,
     hash |-> SubSeq(head, 1, i), date |-> head[i].ad]

\* The positions of the k most recent commits of HEAD, newest first.
RecentPos(k) ==
    [j \in 1..(IF Len(head) < k THEN Len(head) ELSE k) |-> Len(head) + 1 - j]

\* The positions of the commits of HEAD that ref does not reach, newest first.
AheadPos(ref) ==
    LET Ahead(i) == \A j \in 1..Len(rrefs[ref]) : SubSeq(rrefs[ref], 1, j) # SubSeq(head, 1, i)
    IN  SelectSeq(RecentPos(Len(head)), Ahead)

\* The number in the header of the commit group at the root, 0 without header.
HeaderCount ==
    LET IsHeader(item) == item.contextValue = "unpushed-commits"
        headers == SelectSeq(last.items, IsHeader)
    IN  IF headers = <<>> THEN 0 ELSE headers[1].count

\* The resolution gave the commits at these positions, in this order: the
\* children are their items, the header counts them.
Gave(pos) ==
    IF UnpushedReply
    THEN last.items = [j \in 1..Len(pos) |-> ItemAt(pos[j])]
    ELSE HeaderCount = Len(pos)

\* The remote-tracking branches that exist and whose name contains 'origin/',
\* in the order of enumeration.
OriginBranches ==
    LET Hit(b) == rrefs[b] # <<>> /\ b[1] = "origin"
    IN  SelectSeq(BranchOrder, Hit)

\* C1: with a remote, failing origin/main and origin/master queries and an
\* enumeration that succeeds without any name containing 'origin/', the
\* resolution gives the most recent <= 10 local commits.
C1_FallbackWithoutOriginBranch ==
    (Resolved /\ last.calls = <<StatusOk, RemotesOk, RangeErr(OriginMain),
                                RangeErr(OriginMaster), BranchOk>>)
        => Gave(RecentPos(LogLimit))

\* C2: without remotes the resolution gives exactly the most recent
\* min(10, n) commits of HEAD, in log order (unless the local log itself is hit
\* by a tool error), and queries neither origin/main, origin/master nor any
\* remote branch.
C2_NoRemotesLocalLog ==
    (Resolved /\ remotes = <<>> /\ StartsWith(<<StatusOk, RemotesOk>>))
        => /\ \A i \in 1..Len(last.calls) :
                last.calls[i].op \in {"status", "getRemotes"}
                    \/ (last.calls[i].op = "log"
                        /\ last.calls[i].args \in {Last10Args, Last5Args})
           /\ StartsWith(<<StatusOk, RemotesOk, Local10Ok>>)
                => Gave(RecentPos(LogLimit)) /\ Len(last.calls) = 3
           /\ head = <<>> => Gave(<<>>)

C2_Witness ==
    /\ UnpushedReply /\ remotes = <<>>
    /\ Len(head) > LogLimit
    /\ Len(last.items) = LogLimit
    /\ last.items[1].hash = head

\* C3: with a remote and an existing origin/main (whose query no tool error
\* hits), the resolution gives exactly the commits of origin/main..HEAD, one
\* item per commit, newest first, and consults nothing after origin/main.
C3_OriginMainRange ==
    (Resolved /\ remotes # <<>> /\ StartsWith(<<StatusOk, RemotesOk>>)
        /\ rrefs[OriginMain] # <<>> /\ ~Issued(RangeErr(OriginMain)))
        => /\ last.calls = <<StatusOk, RemotesOk, RangeOk(OriginMain)>>
           /\ Gave(AheadPos(OriginMain))

C3_Witness ==
    /\ UnpushedReply
    /\ rrefs[OriginMain] # <<>> /\ rrefs[OriginMaster] # <<>>
    /\ Len(rrefs[OriginMain]) < Len(rrefs[OriginMaster])
    /\ Len(last.items) = MaxAhead
    /\ last.items[1].hash = head

\* C4: with a remote, a failing origin/main query and an existing
\* origin/master (whose query no tool error hits), the resolution gives exactly
\* the commits of origin/master..HEAD, newest first.
C4_OriginMasterRange ==
    (Resolved /\ StartsWith(<<StatusOk, RemotesOk, RangeErr(OriginMain)>>)
        /\ rrefs[OriginMaster] # <<>> /\ ~Issued(RangeErr(OriginMaster)))
        => /\ last.calls = <<StatusOk, RemotesOk, RangeErr(OriginMain),
                             RangeOk(OriginMaster)>>
           /\ Gave(AheadPos(OriginMaster))

C4_Witness ==
    /\ UnpushedReply
    /\ rrefs[OriginMain] = <<>>
    /\ Len(rrefs[OriginMaster]) + MaxAhead = Len(head)
    /\ Len(last.items) = MaxAhead
    /\ last.items[1].hash = head
    /\ last.items[MaxAhead].hash = SubSeq(head, 1, Len(rrefs[OriginMaster]) + 1)

\* C5: after failing origin/main and origin/master queries, when the
\* enumeration lists a name containing 'origin/', HEAD is compared against the
\* first such name: the resolution gives '<that branch>..HEAD' when that query
\* succeeds, and the most recent <= 10 local commits when it, or the
\* enumeration, fails (unless the local log itself is hit by a tool error).
C5_FirstOriginBranch ==
    LET failed == <<StatusOk, RemotesOk, RangeErr(OriginMain), RangeErr(OriginMaster)>>
        first == OriginBranches[1]
        compared == failed \o <<BranchOk, RangeOk(first)>>
        refused == failed \o <<BranchOk, RangeErr(first)>>
        unlisted == failed \o <<BranchErr>>
        LocalAfter(calls) ==
            /\ Len(last.calls) = Len(calls) + 1
            /\ last.calls[Len(calls) + 1] \in {Local10Ok, Local10Err}
            /\ Issued(Local10Ok) \/ head = <<>> => Gave(RecentPos(LogLimit))
    IN  (Resolved /\ StartsWith(failed) /\ Len(last.calls) > Len(failed))
            => /\ last.calls[5] \in {BranchOk, BranchErr}
               /\ last.calls[5] = BranchOk /\ OriginBranches # <<>>
                    => \/ last.calls = compared /\ Gave(AheadPos(first))
                       \/ StartsWith(refused)
                            /\ (UnpushedReply => LocalAfter(refused))
                            /\ (RootReply /\ Issued(Local10Ok) => LocalAfter(refused))
               /\ last.calls[5] = BranchErr
                    => /\ UnpushedReply => LocalAfter(unlisted)
                       /\ RootReply /\ Issued(Local10Ok) => LocalAfter(unlisted)

C5_Witness ==
    /\ UnpushedReply
    /\ Len(OriginBranches) > 1
    /\ last.calls = <<StatusOk, RemotesOk, RangeErr(OriginMain), RangeErr(OriginMaster),
                      BranchOk, RangeErr(OriginBranches[1]), Local10Ok>>
    /\ Len(head) > LogLimit
    /\ Len(last.items) = LogLimit

\* C6: when the resolution fails at its top level (listing the remotes fails,
\* or the final local log fails), it gives the most recent <= 5 commits, and
\* nothing only if that query fails too.
C6_TopLevelFallback ==
    (Resolved /\ StartsWith(<<StatusOk>>) /\ (Issued(RemotesErr) \/ Issued(Local10Err)))
        => \/ Gave(RecentPos(ErrLogLimit))
           \/ Issued(Local5Err) /\ Gave(<<>>)

\* C7: the expansion of the commit group always completes with a sequence of
\* items, and never throws.
C7_NeverThrows == UnpushedReply => ~last.threw

\* The step is a run of editCommitDate whose filter-branch call succeeded.
RewriteSucceeds ==
    /\ last'.op = "editCommitDate"
    /\ last'.calls = <<Call("raw", <<"filter-branch", "--all">>, TRUE)>>

\* From chain before to chain after, the commit whose hash was commitHash has
\* both dates newDate, and every other commit has the dates it had.
DatesRewritten(before, after, commitHash, newDate) ==
    /\ Len(after) = Len(before)
    /\ \A i \in 1..Len(before) :
         IF SubSeq(before, 1, i) = commitHash
         THEN after[i].ad = newDate /\ after[i].cd = newDate
         ELSE after[i].ad = before[i].ad /\ after[i].cd = before[i].cd

\* C8: after a successful rewrite of the date of the commit with hash
\* commitHash to newTimestamp, on every branch the commit that replaces it has
\* author date = committer date = newTimestamp, and every other commit keeps
\* both its dates.
C8_RewriteSetsBothDates ==
    [][RewriteSucceeds =>
        LET commitHash == last'.input.commitHash
            newDate == last'.input.newDate
        IN  /\ DatesRewritten(head, head', commitHash, newDate)
            /\ DatesRewritten(feature, feature', commitHash, newDate)
            /\ \A b \in BranchNames :
                 DatesRewritten(rrefs[b], rrefs'[b], commitHash, newDate)]_vars

C8_Witness ==
    /\ last.op = "editCommitDate" /\ last.refresh /\ backup
    /\ Len(head) > 1 /\ Len(feature) = 2 /\ feature[1] = head[1]
    /\ last.input.newDate # 1
    /\ head[1].ad = last.input.newDate /\ head[1].cd = last.input.newDate
    /\ head[2].ad = 1
    /\ feature[2].cd = 1

\* From chain before to chain after, the commit whose hash was commitHash and
\* its descendants have another hash, and the other commits the hash they had.
HashesMoved(before, after, commitHash) ==
    /\ Len(after) = Len(before)
    /\ \A i \in 1..Len(before) :
         (SubSeq(after, 1, i) # SubSeq(before, 1, i))
            <=> (\E p \in 1..i : SubSeq(before, 1, p) = commitHash)

\* No branch reaches a commit with this hash.
Unreachable(commitHash, chains) ==
    \A c \in chains : \A i \in 1..Len(c) : SubSeq(c, 1, i) # commitHash

\* The hashes after a rewrite of commitHash: moved on every branch, the old
\* hash gone.
RewriteMovesHashes ==
    LET commitHash == last'.input.commitHash
    IN  /\ HashesMoved(head, head', commitHash)
        /\ HashesMoved(feature, feature', commitHash)
        /\ \A b \in BranchNames : HashesMoved(rrefs[b], rrefs'[b], commitHash)
        /\ Unreachable(commitHash, {head', feature'} \cup {rrefs'[b] : b \in BranchNames})

\* The commit with hash commitHash has an author or committer date other than
\* newDate.
DateDiffers ==
    \E c \in AllChains : \E p \in 1..Len(c) :
        /\ SubSeq(c, 1, p) = last'.input.commitHash
        /\ c[p].ad # last'.input.newDate \/ c[p].cd # last'.input.newDate

C10_EmptySelectionRefused ==
    (last.op \in {"commit", "commitButton"} /\ last.input.files = <<>>
        /\ editorGit = "workspace")
        => /\ \A i \in 1..Len(last.calls) : last.calls[i].op \notin {"add", "commit"}
           /\ last.msgs = <<"validation">>

\* The step is a run of editCommitDate that issued its filter-branch call.
RewriteIssued ==
    /\ last'.op = "editCommitDate"
    /\ \E i \in 1..Len(last'.calls) : last'.calls[i].op = "raw"

\* The hashes the resolution gave to the tree, as displayed before the step.
ShownHashes == {shown[i].hash : i \in 1..Len(shown)}

\* C11: the result of the resolution is advisory: no commit hash obtained from
\* it is handed to a tool call that changes the repository.
C11_ResultNeverReachesMutation ==
    [][RewriteIssued => last'.input.commitHash \notin ShownHashes]_vars

\* C12: at most one tool call of the extension is in flight at any time.
C12_OneCallInFlight == Len(inflight) <= 1

\* A call of the last run was rejected.
SomeCallFailed == \E i \in 1..Len(last.calls) : ~last.calls[i].ok

\* The last run is a command or a message of the commit editor.
CommandRun == last.op \notin {"none", "noWorkspace", "root", "children"}

\* C13: every failure of a tool call is caught within the action that issued
\* it: no action ends by throwing, and a command or message handler whose call
\* failed shows an error.
C13_FailuresCaught ==
    /\ ~last.threw
    /\ CommandRun /\ SomeCallFailed
        => \E i \in 1..Len(last.msgs) : last.msgs[i] \in {"error", "diffError"}

\* The positions of HEAD's commits that the last query of the run asked for;
\* none when that query was rejected or was no log query.
AskedPos ==
    LET q == last.calls[Len(last.calls)]
    IN  IF last.calls = <<>> \/ ~q.ok \/ q.op # "log" THEN <<>>
        ELSE IF q.args = Last10Args THEN RecentPos(LogLimit)
        ELSE IF q.args = Last5Args THEN RecentPos(ErrLogLimit)
        ELSE AheadPos(SubSeq(q.args, 1, Len(q.args) - 1))

\* The result of a resolution is what the repository holds when it runs, given
\* the outcomes of its queries.
FromLiveRepository == (Resolved /\ ~last.threw /\ StartsWith(<<StatusOk>>)) => Gave(AskedPos)

\* Two resolutions in a row with the same outcomes.
ResolvedAgain ==
    /\ Resolved /\ Resolved'
    /\ last'.op = last.op /\ last'.input = last.input
    /\ last'.calls = last.calls

\* C14: two resolutions with no change of the repository in between give the
\* same ordered result, and the result of a resolution depends only on the
\* repository at the time of the call: nothing is kept between calls.
C14_ResolveKeepsNoState ==
    [][/\ FromLiveRepository'
       /\ ResolvedAgain => last'.items = last.items]_vars

C14_Witness ==
    /\ UnpushedReply /\ panel
    /\ Len(head) > 1 /\ head[Len(head)].msg = 0
    /\ last.items # <<>> /\ last.items[1].hash = head
    /\ shown = last.items

\* C15: without a workspace folder every action ends without a tool call.
C15_NoCallWithoutWorkspace == (~workspace /\ last.op # "none") => last.calls = <<>>

\* The step is a run of editCommitDate in a workspace: the input box was shown.
EditRuns == workspace /\ last'.op = "editCommitDate"

\* C16: editCommitDate issues the rewrite exactly when the input box returns a
\* non-empty text, whatever the text (no validation, no confirmation, no look
\* at what is pushed); a rejection of the tool is shown as an error; a cancelled
\* or empty input issues nothing, fires no refresh and changes nothing.
C16_RewriteIffNonEmpty ==
    [][EditRuns =>
        LET newDate == last'.input.newDate
        IN  /\ RewriteIssued <=> newDate # 0
            /\ newDate # 0 =>
                 /\ Len(last'.calls) = 1
                 /\ ~last'.calls[1].ok => last'.msgs = <<"error">> /\ repo' = repo
            /\ newDate = 0 =>
                 /\ last'.calls = <<>> /\ last'.msgs = <<>>
                 /\ ~last'.refresh
                 /\ repo' = repo /\ shown' = shown]_vars

C16_Witness ==
    /\ workspace /\ last.op = "editCommitDate"
    /\ last.input.newDate = -1
    /\ ~Dirty /\ ~backup
    /\ Len(last.calls) = 1 /\ ~last.calls[1].ok
    /\ last.msgs = <<"error">>
    /\ \E i \in 1..Len(rrefs[OriginMain]) : Hash(rrefs[OriginMain], i) = last.input.commitHash

\* C17: every rewrite call that editCommitDate issues is followed, before the
\* command ends, by a refresh of the tree, whether the call succeeds or fails.
C17_RefreshAfterRewrite == [][RewriteIssued => last'.refresh /\ shown' = <<>>]_vars

IsLog(q, args) == q.op = "log" /\ q.args = args

\* The query at position i + 1 of a resolution is the one that comes after the
\* query q at position i: positions 3 and 4 are the origin/main and
\* origin/master queries, 5 the enumeration, 6 the query of the candidate.
ComesAfter(q, i, next) ==
    IF q.op = "log" /\ q.ok THEN FALSE
    ELSE IF i = 3 THEN IsLog(next, RangeArgs(OriginMaster))
    ELSE IF i = 4 THEN next.op = "branch"
    ELSE IF q = BranchOk
         THEN OriginBranches # <<>> /\ IsLog(next, RangeArgs(OriginBranches[1]))
    ELSE IF q = Local10Err THEN RootReply /\ IsLog(next, Last5Args)
    ELSE IsLog(next, Last10Args)

\* C18: with remotes, the queries of one resolution come in the fixed order
\* origin/main, origin/master, enumeration, candidate, local log: each follows
\* a failed attempt, and the first log query that is not rejected ends the
\* chain, also when it returns no commit.
C18_FixedOrderFirstSuccess ==
    (Resolved /\ remotes # <<>> /\ StartsWith(<<StatusOk, RemotesOk>>))
        => LET n == Len(last.calls)
           IN  /\ n >= 3
               /\ IsLog(last.calls[3], RangeArgs(OriginMain))
               /\ \A i \in 3..(n - 1) : ComesAfter(last.calls[i], i, last.calls[i + 1])
               /\ \/ last.calls[n].ok
                  \/ UnpushedReply /\ last.calls[n] = Local10Err
                  \/ RootReply /\ last.calls[n] = Local5Err
               /\ last.calls[n].ok /\ last.calls[n].op = "log" => Gave(AskedPos)

C18_Witness ==
    /\ UnpushedReply
    /\ head # <<>> /\ rrefs[OriginMain] = head
    /\ rrefs[OriginMaster] # <<>> /\ rrefs[OriginMaster] # head
    /\ last.calls = <<StatusOk, RemotesOk, RangeOk(OriginMain)>>
    /\ last.items = <<>>

\* The calls that change the repository, and the runs of the actions that make them.
Mutating == {"add", "reset", "commit", "push", "raw"}

MutatingRun ==
    last.op \in {"stageFile", "unstageFile", "commit", "commitButton", "push", "editCommitDate"}

Successes == {"information", "commitSuccess", "pushSuccess"}

\* No mutating call is made twice in the last run.
NeverRepeated ==
    \A i, j \in 1..Len(last.calls) :
        (i # j /\ last.calls[i].op \in Mutating) => last.calls[j].op # last.calls[i].op

\* After the rejected call at position i: one error message, no success
\* message, and no mutating call.
StopsAt(i) ==
    /\ Len(SelectSeq(last.msgs, LAMBDA m : m = "error")) = 1
    /\ \A k \in 1..Len(last.msgs) : last.msgs[k] \notin Successes
    /\ \A j \in (i + 1)..Len(last.calls) : last.calls[j].op \notin Mutating

\* C19, as stated: no mutating action repeats its mutating call, and when a
\* tool call fails the action shows exactly one error message, makes no further
\* mutating call and posts no success message.
C19_AnyFailureStopsAction ==
    MutatingRun =>
        /\ NeverRepeated
        /\ \A i \in 1..Len(last.calls) : ~last.calls[i].ok => StopsAt(i)

\* C19, amended: the same, when the call that fails is a mutating call.
C19_MutatingFailureStopsAction ==
    MutatingRun =>
        /\ NeverRepeated
        /\ \A i \in 1..Len(last.calls) :
             (~last.calls[i].ok /\ last.calls[i].op \in Mutating) => StopsAt(i)

C19_Witness ==
    /\ last.op = "commit" /\ editorGit = "workspace"
    /\ Len(last.calls) = 1 /\ last.calls[1].op = "add" /\ ~last.calls[1].ok
    /\ last.msgs = <<"error">>
    /\ \E f \in Files : files[f] = "modified"

\* The expansion c of the commit group met the same outcomes as the last run
\* (of the root level): the same calls with the same results, the root level
\* possibly going on where the expansion stops.
SameOutcomes(c) ==
    /\ ~c.threw
    /\ Len(c.calls) <= Len(last.calls)
    /\ SubSeq(last.calls, 1, Len(c.calls)) = c.calls

HeaderShown == \E i \in 1..Len(last.items) : last.items[i].contextValue = "unpushed-commits"

\* C20: for the same repository and the same outcomes of the queries, the
\* number in the header of the commit group at the root equals the number of
\* children its expansion returns, and the header is there exactly when that
\* number is not zero.
C20_HeaderMatchesChildren ==
    (RootReply /\ StartsWith(<<StatusOk>>))
        => \A c \in GetChildrenForElement("unpushed-commits") :
             SameOutcomes(c)
                => /\ HeaderCount = Len(c.items)
                   /\ HeaderShown <=> Len(c.items) > 0

\* The arguments of a commit call carry the date exactly when the message
\* carried one.
DatedAsGiven(args, commitDate) ==
    /\ args \in {<<>>, <<"--date">>}
    /\ args = <<"--date">> <=> commitDate # 0

Posted(msgs, m) == \E k \in 1..Len(msgs) : msgs[k] = m

\* A handleCommit run that waits for a call has done the steps before it.
WaitsInOrder(s) ==
    /\ s.call = "add" => s.calls = <<>> /\ s.msgs = <<>>
    /\ s.call = "commit"
         => /\ s.calls = <<Call("add", s.input.files, TRUE)>>
            /\ s.msgs = <<>>
            /\ DatedAsGiven(s.args, s.input.commitDate)
    /\ s.call = "status"
         => /\ s.msgs = <<"commitSuccess">>
            /\ Len(s.calls) = 2 /\ s.calls[2].op = "commit" /\ s.calls[2].ok

\* A handleCommit run that has ended did its steps in order.
EndedInOrder(r) ==
    /\ \A k \in 1..Len(r.calls) :
         /\ r.calls[k].op = "commit"
              => /\ k = 2
                 /\ r.calls[1] = Call("add", r.input.files, TRUE)
                 /\ DatedAsGiven(r.calls[k].args, r.input.commitDate)
         /\ r.calls[k].op = "status"
              => /\ k = 3
                 /\ r.calls[2].op = "commit" /\ r.calls[2].ok
                 /\ r.msgs[1] = "commitSuccess"
    /\ Posted(r.msgs, "commitSuccess")
         => /\ r.msgs[1] = "commitSuccess"
            /\ Len(r.calls) >= 2 /\ r.calls[2].op = "commit" /\ r.calls[2].ok
    /\ Posted(r.msgs, "statusUpdate") => r.msgs = <<"commitSuccess", "statusUpdate">>

\* C21: in handling a 'commit' message with files, the add call has returned
\* before the commit call is issued, the commit call carries --date exactly
\* when the message carried a date, 'commitSuccess' is posted only after the
\* commit call resolved, and the status query is issued only after
\* 'commitSuccess' was posted.
C21_CommitStepsInOrder ==
    /\ \A i \in CommitsInFlight :
         Len(inflight[i].input.files) > 0 => WaitsInOrder(inflight[i])
    /\ (last.op = "commit" /\ Len(last.input.files) > 0) => EndedInOrder(last)

C21_Witness ==
    /\ last.op = "commit"
    /\ last.input.files = FileOrder
    /\ last.input.commitDate \in Dates
    /\ last.calls = <<Call("add", FileOrder, TRUE), Call("commit", <<"--date">>, TRUE),
                      Call("status", <<>>, TRUE)>>
    /\ last.msgs = <<"commitSuccess", "statusUpdate">>
    /\ head # <<>> /\ head[Len(head)].ad = last.input.commitDate

\* C22: whenever the status query succeeds, the items of the root level start
\* with the branch item and end with the action item, whichever queries of the
\* commit group fail.
C22_RootKeepsBranchAndAction ==
    (RootReply /\ StartsWith(<<StatusOk>>))
        => /\ Len(last.items) >= 2
           /\ last.items[1] = [contextValue |-> "branch"]
           /\ last.items[Len(last.items)] = [contextValue |-> "action"]
           /\ ~last.threw

C22_Witness ==
    /\ RootReply
    /\ Len(head) >= LogLimit /\ rrefs[OriginMain] # <<>>
    /\ last.calls = <<StatusOk, RemotesOk, RangeErr(OriginMain), RangeErr(OriginMaster),
                      BranchErr, Local10Err, Local5Err>>
    /\ last.items = <<[contextValue |-> "branch"], [contextValue |-> "tracking"],
                      [contextValue |-> "action"]>>

\* C23: with a workspace folder open, every add, commit and push call of the
\* commit editor is made on a handle on the workspace, whatever the order of
\* the messages and the outcome of the status queries.
C23_EditorCallsOnWorkspace ==
    workspace
        => \A i \in 1..Len(inflight) :
             inflight[i].call \in {"add", "commit", "push"} => inflight[i].git = "workspace"

C23_Witness ==
    /\ workspace
    /\ last.op = "showCommitEditor"
    /\ last.calls = <<Call("status", <<>>, FALSE)>>
    /\ Len(inflight) = 2
    /\ inflight[1].call = "push" /\ inflight[1].git = "workspace"
    /\ inflight[2].call = "add" /\ inflight[2].git = "workspace"

====
